---- MODULE Spec2Model ----
(***************************************************************************)
(* fastmath: branchless sign functions (sign.rs), floor(log2) (log.rs)     *)
(* and the Lehmer64 generator (rng.rs).                                    *)
(*                                                                         *)
(* A fixed-width integer is its bit pattern, kept as little-endian bytes:  *)
(* a function from 0..(BITS/8 - 1) to 0..255, byte 0 the least             *)
(* significant.  Every operation of the source is computed on the pattern  *)
(* at the full width of its type, so 64- and 128-bit values never pass     *)
(* through a model integer.                                                *)
(***************************************************************************)
EXTENDS Integers, Sequences, FiniteSets, TLC

VARIABLES
    in,     \* sign.rs / log.rs: the call's type and arguments
    res,    \* sign.rs / log.rs: the function applied and the value returned
    seed,   \* rng.rs: the seed handed to Lehmer64::new
    rn,     \* rng.rs: rn[i].state, the 128-bit state of instance i
    calls,  \* rng.rs: calls[i], generation calls made on instance i
    log     \* rng.rs: log[i], the latest calls on instance i with their results

vars == <<in, res, seed, rn, calls, log>>

(***************************************************************************)
(* Bounds of the model.                                                    *)
(***************************************************************************)
\* Signed samples lie within SignRadius of MIN, of zero and of MAX.
SignRadius == 6
\* Unsigned samples lie within LogRadius of a power of two.
LogRadius == 2
\* Generation calls on the single instance of Spec.
MaxCalls == 4
\* Generation calls on the instance of SpecDoc.
MaxDocCalls == 3
\* Generation calls on each of the two instances of SpecPair.
MaxPairCalls == 2

(***************************************************************************)
(* Bit patterns.                                                           *)
(***************************************************************************)
Bytes(v) == Cardinality(DOMAIN v)

Width(v) == 8 * Bytes(v)

\* Bit i of the pattern v (bit 0 the least significant).
Bit(v, i) == (v[i \div 8] \div (2 ^ (i % 8))) % 2

\* A literal written most significant byte first, as in the source.
Hex(h) == [j \in 0..(Len(h) - 1) |-> h[Len(h) - j]]

\* The w-bit pattern of the natural number n (n below 2^31), wrapped to w bits.
RECURSIVE NatBytes(_, _)
NatBytes(n, k) == IF k = 0 THEN <<>> ELSE <<n % 256>> \o NatBytes(n \div 256, k - 1)

FromNat(n, w) == LET q == NatBytes(n, w \div 8) IN [j \in 0..((w \div 8) - 1) |-> q[j + 1]]

Zero(w) == [j \in 0..((w \div 8) - 1) |-> 0]
One(w) == [j \in 0..((w \div 8) - 1) |-> IF j = 0 THEN 1 ELSE 0]
AllOnes(w) == [j \in 0..((w \div 8) - 1) |-> 255]

\* Bitwise operators &, ^, |, !, byte by byte, each byte bit by bit.
BitOp(op, u, v) ==
    CASE op = "&" -> u * v
      [] op = "^" -> (u + v) % 2
      [] op = "|" -> u + v - u * v

RECURSIVE ByteOp(_, _, _, _)
ByteOp(op, p, q, n) ==
    IF n = 0 THEN 0
    ELSE BitOp(op, p % 2, q % 2) + 2 * ByteOp(op, p \div 2, q \div 2, n - 1)

BitAnd(a, b) == [j \in DOMAIN a |-> ByteOp("&", a[j], b[j], 8)]
BitXor(a, b) == [j \in DOMAIN a |-> ByteOp("^", a[j], b[j], 8)]
BitOr(a, b) == [j \in DOMAIN a |-> ByteOp("|", a[j], b[j], 8)]
BitNot(a) == [j \in DOMAIN a |-> 255 - a[j]]

\* Logical shifts << and >> by n bits (n below the width): n = 8 q + r moves
\* whole bytes by q and splits each byte at bit r.
Shl(a, n) ==
    LET q == n \div 8
        r == n % 8
        at(j) == IF j \in DOMAIN a THEN a[j] ELSE 0
    IN  [j \in DOMAIN a |->
            ((at(j - q) * (2 ^ r)) % 256) + (at(j - q - 1) \div (2 ^ (8 - r)))]

Shr(a, n) ==
    LET q == n \div 8
        r == n % 8
        at(j) == IF j \in DOMAIN a THEN a[j] ELSE 0
    IN  [j \in DOMAIN a |->
            (at(j + q) \div (2 ^ r)) + ((at(j + q + 1) * (2 ^ (8 - r))) % 256)]

\* a.rotate_right(n): the bit at position p moves to position p - n, modulo
\* the width.
rotate_right(a, n) ==
    LET len == Bytes(a)
        q == (n % (8 * len)) \div 8
        r == n % 8
    IN  [j \in DOMAIN a |->
            (a[(j + q) % len] \div (2 ^ r))
            + ((a[(j + q + 1) % len] * (2 ^ (8 - r))) % 256)]

\* Two's-complement addition and subtraction modulo 2^Width.
RECURSIVE AddFrom(_, _, _, _)
AddFrom(a, b, j, carry) ==
    IF j = Bytes(a) THEN <<>>
    ELSE LET t == a[j] + b[j] + carry
         IN  <<t % 256>> \o AddFrom(a, b, j + 1, t \div 256)

wrapping_add(a, b) == LET q == AddFrom(a, b, 0, 0) IN [j \in DOMAIN a |-> q[j + 1]]

wrapping_neg(a) == wrapping_add(BitNot(a), One(Width(a)))

wrapping_sub(a, b) == wrapping_add(a, wrapping_neg(b))

\* a as T for an integer type of w bits: truncation, or zero extension of an
\* unsigned source.
Cast(a, w) ==
    [j \in 0..((w \div 8) - 1) |-> IF j \in DOMAIN a THEN a[j] ELSE 0]

\* Comparison of two patterns of one width read as unsigned integers.
RECURSIVE LtFrom(_, _, _)
LtFrom(a, b, j) ==
    IF j < 0 THEN FALSE
    ELSE IF a[j] # b[j] THEN a[j] < b[j]
    ELSE LtFrom(a, b, j - 1)

UnsignedLt(a, b) == LtFrom(a, b, Cardinality(DOMAIN a) - 1)

\* Comparison of two patterns of one width read as two's-complement integers.
SignBit(a) == Bit(a, Width(a) - 1)

SignedLt(a, b) ==
    IF SignBit(a) # SignBit(b) THEN SignBit(a) = 1 ELSE UnsignedLt(a, b)

\* The pattern of the integer k (|k| below 2^31) at w bits.
FromInt(k, w) == IF k >= 0 THEN FromNat(k, w) ELSE wrapping_neg(FromNat(0 - k, w))

\* Operator - on signed integers with overflow checks on: a - b is outside
\* the type's range ("attempt to subtract with overflow").
SubOverflows(a, b) ==
    /\ SignBit(a) # SignBit(b)
    /\ SignBit(wrapping_sub(a, b)) # SignBit(a)

\* Operators << and >> with overflow checks on: the count n is not below the
\* width w ("attempt to shift left with overflow").
ShiftOverflows(w, n) == n < 0 \/ n >= w

\* What a call leaves behind: the value returned, or an abort when one of
\* its checked operations overflowed.
Outcome(fn, args, overflows, ret) ==
    IF overflows
    THEN [fn |-> fn, args |-> args, abort |-> TRUE]
    ELSE [fn |-> fn, args |-> args, abort |-> FALSE, ret |-> ret]

(***************************************************************************)
(* The primitive integer types (traits.rs).                                *)
(***************************************************************************)
\* isize and usize have the width of a pointer; the documented generator
\* outputs (rng.rs, generate_isize) are those of a 64-bit target.
PointerBits == 64

SignedTypes == {"i8", "i16", "i32", "i64", "i128", "isize"}
UnsignedTypes == {"u8", "u16", "u32", "u64", "u128", "usize"}

BITS(t) ==
    CASE t \in {"i8", "u8"} -> 8
      [] t \in {"i16", "u16"} -> 16
      [] t \in {"i32", "u32"} -> 32
      [] t \in {"i64", "u64"} -> 64
      [] t \in {"i128", "u128"} -> 128
      [] t \in {"isize", "usize"} -> PointerBits

MIN(t) ==
    IF t \in SignedTypes
    THEN [j \in 0..((BITS(t) \div 8) - 1) |-> IF j = (BITS(t) \div 8) - 1 THEN 128 ELSE 0]
    ELSE Zero(BITS(t))

MAX(t) == IF t \in SignedTypes THEN BitNot(MIN(t)) ELSE AllOnes(BITS(t))

(***************************************************************************)
(* sign.rs                                                                 *)
(***************************************************************************)
\* const MSB_MASK: $datatype = 1 << (<$datatype>::BITS - 1);
MSB_MASK(t) == Shl(One(BITS(t)), BITS(t) - 1)

\* const BITS_M_2: u32 = <$datatype>::BITS - 2;
BITS_M_2(t) == BITS(t) - 2

\* A slip in the rotation count: the sign bit lands on bit 0 instead of bit 1.
int_sign_rot1(t, x) ==
    wrapping_sub(One(BITS(t)), rotate_right(BitAnd(x, MSB_MASK(t)), BITS(t) - 1))

\* int_sign_<t>(x): 1 - (x & MSB_MASK).rotate_right(BITS_M_2)
int_sign(t, x) ==
    wrapping_sub(One(BITS(t)), rotate_right(BitAnd(x, MSB_MASK(t)), BITS_M_2(t)))

\* The checked operations of int_sign_<t>: 1 << (BITS - 1), BITS - 2 on u32,
\* and the signed subtraction 1 - (..).
int_sign_overflows(t, x) ==
    \/ ShiftOverflows(BITS(t), BITS(t) - 1)
    \/ BITS(t) - 2 < 0
    \/ SubOverflows(One(BITS(t)), rotate_right(BitAnd(x, MSB_MASK(t)), BITS_M_2(t)))

\* A slip in the operator: & in place of ^.
int_opposite_sign_and(t, x, y) == SignedLt(BitAnd(x, y), Zero(BITS(t)))

\* int_opposite_sign_<t>(x, y): (x ^ y) < 0
int_opposite_sign(t, x, y) == SignedLt(BitXor(x, y), Zero(BITS(t)))

\* The negation of (x ^ y) < 0 taken to be (x ^ y) > 0.
int_same_sign_gt(t, x, y) == SignedLt(Zero(BITS(t)), BitXor(x, y))

\* int_same_sign_<t>(x, y): !int_opposite_sign_<t>(x, y)
int_same_sign(t, x, y) == ~int_opposite_sign(t, x, y)

(***************************************************************************)
(* log.rs                                                                  *)
(***************************************************************************)
\* x.leading_zeros(): the zero bits above the highest set bit; the width when
\* x is zero.
RECURSIVE ByteZeros(_, _)
ByteZeros(p, b) ==
    IF b < 0 THEN 0
    ELSE IF (p \div (2 ^ b)) % 2 = 1 THEN 0
    ELSE 1 + ByteZeros(p, b - 1)

RECURSIVE ZerosFrom(_, _)
ZerosFrom(x, j) ==
    IF j < 0 THEN 0
    ELSE IF x[j] # 0 THEN ByteZeros(x[j], 7)
    ELSE 8 + ZerosFrom(x, j - 1)

leading_zeros(x) == ZerosFrom(x, Bytes(x) - 1)

\* A slip: the subtraction of one left out (the bit length, not the log).
log2_floor_bitlen(t, x) == FromNat(BITS(t) - leading_zeros(x), 32)

\* A slip: the zero case clamped, as saturating_sub(1) would do.
log2_floor_saturating(t, x) ==
    IF BITS(t) - leading_zeros(x) = 0 THEN Zero(32)
    ELSE FromNat(BITS(t) - leading_zeros(x) - 1, 32)

\* A slip: one bit too few counted above the highest set bit.
log2_floor_ceil(t, x) ==
    IF x = Zero(BITS(t)) \/ BitAnd(x, wrapping_sub(x, One(BITS(t)))) = Zero(BITS(t))
    THEN wrapping_sub(FromNat(BITS(t) - leading_zeros(x), 32), One(32))
    ELSE FromNat(BITS(t) - leading_zeros(x), 32)

\* <t>_log2_floor(x): (<t>::BITS - x.leading_zeros()).wrapping_sub(1), a u32.
log2_floor(t, x) ==
    wrapping_sub(FromNat(BITS(t) - leading_zeros(x), 32), One(32))

\* A slip: the final subtraction written with operator -, checked, in place
\* of wrapping_sub(1).
log2_floor_overflows_minus(t, x) == BITS(t) - leading_zeros(x) - 1 < 0

\* The checked operation of <t>_log2_floor: <t>::BITS - x.leading_zeros() on
\* u32; wrapping_sub is not checked.
log2_floor_overflows(t, x) == BITS(t) - leading_zeros(x) < 0

(***************************************************************************)
(* Arguments.  An argument is drawn as a mathematical integer, written     *)
(* relative to a landmark of its type, and encoded to its bit pattern.     *)
(***************************************************************************)
\* Signed: MIN + off (off >= 0), off itself, or MAX + off (off <= 0).
SignedSamples ==
    [base : {"MIN"}, off : 0..SignRadius]
    \cup [base : {"ZERO"}, off : (0 - SignRadius)..SignRadius]
    \cup [base : {"MAX"}, off : (0 - SignRadius)..0]

IsNegative(m) == m.base = "MIN" \/ (m.base = "ZERO" /\ m.off < 0)

EncodeSigned(t, m) ==
    LET b == CASE m.base = "MIN" -> MIN(t)
               [] m.base = "ZERO" -> Zero(BITS(t))
               [] m.base = "MAX" -> MAX(t)
    IN  wrapping_add(b, FromInt(m.off, BITS(t)))

\* Unsigned: 2^k + off for 0 <= k <= BITS, or 2^k + 2^(k-1) + off between two
\* powers (mid), within 0..MAX.
SmallValue(m) == 2 ^ m.k + (IF m.mid THEN 2 ^ (m.k - 1) ELSE 0) + m.off

UnsignedSamples(t) ==
    {m \in [k : 0..BITS(t), off : (0 - LogRadius)..LogRadius, mid : BOOLEAN] :
        /\ (m.mid => m.k \in 1..(BITS(t) - 1))
        /\ (m.k <= 8 => SmallValue(m) >= 0)
        /\ (m.k = BITS(t) => m.off < 0)}

IsZero(m) == m.k <= 8 /\ SmallValue(m) = 0

EncodeUnsigned(t, m) ==
    LET b == IF m.k = BITS(t) THEN Zero(BITS(t)) ELSE Shl(One(BITS(t)), m.k)
        h == IF m.mid THEN Shl(One(BITS(t)), m.k - 1) ELSE Zero(BITS(t))
    IN  wrapping_add(wrapping_add(b, h), FromInt(m.off, BITS(t)))

NoInput == [ty |-> "none"]
NoResult == [fn |-> "none"]

\* The generator is not part of a run of the pure functions.
NoRng == /\ seed = Zero(128)
         /\ rn = <<>>
         /\ calls = <<>>
         /\ log = <<>>

(***************************************************************************)
(* SpecSign: one call of a sign function on drawn arguments.               *)
(***************************************************************************)
InitSign ==
    /\ in \in [ty : SignedTypes, x : SignedSamples, y : SignedSamples]
    /\ res = NoResult
    /\ NoRng

CallIntSign ==
    /\ res.fn = "none"
    /\ res' = Outcome("int_sign", <<EncodeSigned(in.ty, in.x)>>,
                       int_sign_overflows(in.ty, EncodeSigned(in.ty, in.x)),
                       int_sign(in.ty, EncodeSigned(in.ty, in.x)))
    /\ UNCHANGED <<in, seed, rn, calls, log>>

CallIntOppositeSign ==
    /\ res.fn = "none"
    /\ res' = Outcome("int_opposite_sign",
                       <<EncodeSigned(in.ty, in.x), EncodeSigned(in.ty, in.y)>>,
                       FALSE,
                       int_opposite_sign(in.ty, EncodeSigned(in.ty, in.x),
                                         EncodeSigned(in.ty, in.y)))
    /\ UNCHANGED <<in, seed, rn, calls, log>>

CallIntSameSign ==
    /\ res.fn = "none"
    /\ res' = Outcome("int_same_sign",
                       <<EncodeSigned(in.ty, in.x), EncodeSigned(in.ty, in.y)>>,
                       FALSE,
                       int_same_sign(in.ty, EncodeSigned(in.ty, in.x),
                                     EncodeSigned(in.ty, in.y)))
    /\ UNCHANGED <<in, seed, rn, calls, log>>

NextSign == CallIntSign \/ CallIntOppositeSign \/ CallIntSameSign

SpecSign == InitSign /\ [][NextSign]_vars

(***************************************************************************)
(* SpecLog2: one call of log2_floor on a drawn argument.                   *)
(***************************************************************************)
InitLog2 ==
    /\ \E t \in UnsignedTypes : in \in [ty : {t}, x : UnsignedSamples(t)]
    /\ res = NoResult
    /\ NoRng

CallLog2Floor ==
    /\ res.fn = "none"
    /\ res' = Outcome("log2_floor", <<EncodeUnsigned(in.ty, in.x)>>,
                       log2_floor_overflows(in.ty, EncodeUnsigned(in.ty, in.x)),
                       log2_floor(in.ty, EncodeUnsigned(in.ty, in.x)))
    /\ UNCHANGED <<in, seed, rn, calls, log>>

NextLog2 == CallLog2Floor

SpecLog2 == InitLog2 /\ [][NextLog2]_vars

(***************************************************************************)
(* rng.rs: Lehmer64                                                        *)
(***************************************************************************)
\* const DEFAULT_SEED: u128 = 0xfe1f873c7fc74fa65743b339f566f7bb;
DEFAULT_SEED ==
    Hex(<<\hfe, \h1f, \h87, \h3c, \h7f, \hc7, \h4f, \ha6,
          \h57, \h43, \hb3, \h39, \hf5, \h66, \hf7, \hbb>>)

\* const MUL_CONSTANT: u128 = 0xda942042e4dd58b5;
MUL_CONSTANT ==
    Hex(<<\h00, \h00, \h00, \h00, \h00, \h00, \h00, \h00,
          \hda, \h94, \h20, \h42, \he4, \hdd, \h58, \hb5>>)

\* a.wrapping_mul(b): the product modulo 2^Width, by columns of byte products
\* with the carry passed upward and dropped at the top.
RECURSIVE ColumnSum(_, _, _, _)
ColumnSum(a, b, i, j) ==
    IF j > i THEN 0 ELSE a[j] * b[i - j] + ColumnSum(a, b, i, j + 1)

RECURSIVE MulFrom(_, _, _, _)
MulFrom(a, b, i, carry) ==
    IF i = Bytes(a) THEN <<>>
    ELSE LET t == ColumnSum(a, b, i, 0) + carry
         IN  <<t % 256>> \o MulFrom(a, b, i + 1, t \div 256)

wrapping_mul(a, b) == LET q == MulFrom(a, b, 0, 0) IN [j \in DOMAIN a |-> q[j + 1]]

\* fn advance(&mut self): self.state = self.state.wrapping_mul(MUL_CONSTANT)
advance(state) == wrapping_mul(state, MUL_CONSTANT)

\* A slip: the zero seed not replaced.
new_keep_zero(sd) == [state |-> advance(advance(sd))]

\* A slip: one warm-up advance instead of two.
new_single_warmup(sd) ==
    LET state == IF sd = Zero(128) THEN DEFAULT_SEED ELSE sd
    IN  [state |-> advance(state)]

\* pub fn new(seed: u128) -> Self
new(sd) ==
    LET state == IF sd = Zero(128) THEN DEFAULT_SEED ELSE sd
    IN  [state |-> advance(advance(state))]

\* A generation method maps the instance to the instance it leaves behind
\* (self) and the value it returns (ret).

\* A slip: the advance left out.
generic_generation_function_stale(t, self) ==
    [self |-> self,
     ret |-> [ty |-> t, bits |-> Cast(Shr(self.state, 64), BITS(t))]]

\* A slip: the shift left out, so the low half of the state is returned.
generic_generation_function_low(t, self) ==
    LET state == advance(self.state)
    IN  [self |-> [state |-> state],
         ret |-> [ty |-> t, bits |-> Cast(state, BITS(t))]]

\* generic_generation_function!: self.advance(); (self.state >> 64) as $datatype
generic_generation_function(t, self) ==
    LET state == advance(self.state)
    IN  [self |-> [state |-> state],
         ret |-> [ty |-> t, bits |-> Cast(Shr(state, 64), BITS(t))]]

generate_u8(self) == generic_generation_function("u8", self)
generate_u16(self) == generic_generation_function("u16", self)
generate_u32(self) == generic_generation_function("u32", self)
generate_u64(self) == generic_generation_function("u64", self)
generate_usize(self) == generic_generation_function("usize", self)
generate_i8(self) == generic_generation_function("i8", self)
generate_i16(self) == generic_generation_function("i16", self)
generate_i32(self) == generic_generation_function("i32", self)
generate_i64(self) == generic_generation_function("i64", self)
generate_isize(self) == generic_generation_function("isize", self)

\* A slip: the two halves in the wrong order.
generate_u128_swapped(self) ==
    LET s1 == advance(self.state)
        high_bits == Shr(s1, 64)
        s2 == advance(s1)
    IN  [self |-> [state |-> s2],
         ret |-> [ty |-> "u128", bits |-> BitOr(Shl(Shr(s2, 64), 64), high_bits)]]

\* pub fn generate_u128(&mut self) -> u128
generate_u128(self) ==
    LET s1 == advance(self.state)
        high_bits == Shr(s1, 64)
        s2 == advance(s1)
    IN  [self |-> [state |-> s2],
         ret |-> [ty |-> "u128", bits |-> BitOr(Shl(high_bits, 64), Shr(s2, 64))]]

\* pub fn generate_i128(&mut self) -> i128
generate_i128(self) ==
    LET s1 == advance(self.state)
        high_bits == Shr(s1, 64)
        s2 == advance(s1)
    IN  [self |-> [state |-> s2],
         ret |-> [ty |-> "i128",
                  bits |-> Cast(BitOr(Shl(high_bits, 64), Shr(s2, 64)), 128)]]

\* A float that is an integer times a power of two is kept exactly, as
\* num * 2^exp2 with num a bit pattern.  consts::double::INV_2POW53 and
\* consts::float::INV_2POW24 are the powers 2^-53 and 2^-24.
INV_2POW53 == [exp2 |-> 0 - 53]
INV_2POW24 == [exp2 |-> 0 - 24]

\* n as f64, n as f32 (exact while n has no more bits than the mantissa), and
\* the product with a power of two.
AsFloat(t, n) == [ty |-> t, num |-> n, exp2 |-> 0]
FloatScale(x, c) == [ty |-> x.ty, num |-> x.num, exp2 |-> x.exp2 + c.exp2]

\* A slip in the shift count: 54 bits kept instead of 53.
generate_f64_shift10(self) ==
    LET r == generate_u64(self)
    IN  [self |-> r.self,
         ret |-> FloatScale(AsFloat("f64", Shr(r.ret.bits, 10)), INV_2POW53)]

\* pub fn generate_f64: (self.generate_u64() >> 11) as f64 * INV_2POW53
generate_f64(self) ==
    LET r == generate_u64(self)
    IN  [self |-> r.self,
         ret |-> FloatScale(AsFloat("f64", Shr(r.ret.bits, 11)), INV_2POW53)]

\* pub fn generate_f32: (self.generate_u32() >> 8) as f32 * INV_2POW24
generate_f32(self) ==
    LET r == generate_u32(self)
    IN  [self |-> r.self,
         ret |-> FloatScale(AsFloat("f32", Shr(r.ret.bits, 8)), INV_2POW24)]

\* pub fn generate_bool: self.generate_u8() & 1 != 0
generate_bool(self) ==
    LET r == generate_u8(self)
    IN  [self |-> r.self,
         ret |-> [ty |-> "bool", val |-> BitAnd(r.ret.bits, One(8)) # Zero(8)]]

\* pub fn generate_any_f64: f64::from_bits(self.generate_u64())
generate_any_f64(self) ==
    LET r == generate_u64(self)
    IN  [self |-> r.self, ret |-> [ty |-> "f64", from_bits |-> r.ret.bits]]

\* pub fn generate_any_f32: f32::from_bits(self.generate_u32())
generate_any_f32(self) ==
    LET r == generate_u32(self)
    IN  [self |-> r.self, ret |-> [ty |-> "f32", from_bits |-> r.ret.bits]]

\* The f32 arguments of generate_weighted_bool: c * 2^-24 for an integer c,
\* or NaN.  0.95f32 is 15938355 * 2^-24.
Chance(c) == [nan |-> FALSE, c |-> c]
ChanceNaN == [nan |-> TRUE, c |-> 0]
Chances ==
    {Chance(0), Chance(15938355), Chance(16777216), Chance(0 - 8388608), ChanceNaN}
DocChances == {Chance(15938355)}

\* x < chance for x = num * 2^-24 from generate_f32: false for NaN.
FloatLt(x, chance) ==
    /\ ~chance.nan
    /\ chance.c > 0
    /\ UnsignedLt(x.num, FromNat(chance.c, Width(x.num)))

\* pub fn generate_weighted_bool: self.generate_f32() < chance
generate_weighted_bool(self, chance) ==
    LET r == generate_f32(self)
    IN  [self |-> r.self, ret |-> [ty |-> "bool", val |-> FloatLt(r.ret, chance)]]

(***************************************************************************)
(* Generator runs.  A call of a method on instance i replaces the          *)
(* instance, counts the call and appends it, with the state it started     *)
(* from, to the instance's log, of which the latest keep entries are kept. *)
(***************************************************************************)
LastN(q, n) == IF Len(q) <= n THEN q ELSE SubSeq(q, Len(q) - n + 1, Len(q))

\* The checked operations of the generation methods: self.state >> 64 and
\* high_bits << 64 on u128, >> 11 on u64 in generate_f64 and >> 8 on u32 in
\* generate_f32 (generate_weighted_bool calls it); wrapping_mul, the casts and
\* the bitwise operators are not checked.
generate_overflows(fn) ==
    \/ ShiftOverflows(BITS("u128"), 64)
    \/ fn = "generate_f64" /\ ShiftOverflows(BITS("u64"), 11)
    \/ fn \in {"generate_f32", "generate_weighted_bool"}
          /\ ShiftOverflows(BITS("u32"), 8)

Call(i, fn, arg, out, keep) ==
    /\ rn' = [rn EXCEPT ![i] = out.self]
    /\ calls' = [calls EXCEPT ![i] = @ + 1]
    /\ log' = [log EXCEPT ![i] =
                  LastN(Append(@, IF generate_overflows(fn)
                                  THEN [fn |-> fn, arg |-> arg, pre |-> rn[i].state,
                                        abort |-> TRUE]
                                  ELSE [fn |-> fn, arg |-> arg, pre |-> rn[i].state,
                                        abort |-> FALSE, ret |-> out.ret]), keep)]
    /\ UNCHANGED <<in, res, seed>>

GenerateU8(i, keep) == Call(i, "generate_u8", <<>>, generate_u8(rn[i]), keep)
GenerateU16(i, keep) == Call(i, "generate_u16", <<>>, generate_u16(rn[i]), keep)
GenerateU32(i, keep) == Call(i, "generate_u32", <<>>, generate_u32(rn[i]), keep)
GenerateU64(i, keep) == Call(i, "generate_u64", <<>>, generate_u64(rn[i]), keep)
GenerateUsize(i, keep) == Call(i, "generate_usize", <<>>, generate_usize(rn[i]), keep)
GenerateU128(i, keep) == Call(i, "generate_u128", <<>>, generate_u128(rn[i]), keep)
GenerateI8(i, keep) == Call(i, "generate_i8", <<>>, generate_i8(rn[i]), keep)
GenerateI16(i, keep) == Call(i, "generate_i16", <<>>, generate_i16(rn[i]), keep)
GenerateI32(i, keep) == Call(i, "generate_i32", <<>>, generate_i32(rn[i]), keep)
GenerateI64(i, keep) == Call(i, "generate_i64", <<>>, generate_i64(rn[i]), keep)
GenerateIsize(i, keep) == Call(i, "generate_isize", <<>>, generate_isize(rn[i]), keep)
GenerateI128(i, keep) == Call(i, "generate_i128", <<>>, generate_i128(rn[i]), keep)
GenerateF64(i, keep) == Call(i, "generate_f64", <<>>, generate_f64(rn[i]), keep)
GenerateF32(i, keep) == Call(i, "generate_f32", <<>>, generate_f32(rn[i]), keep)
GenerateBool(i, keep) == Call(i, "generate_bool", <<>>, generate_bool(rn[i]), keep)
GenerateAnyF64(i, keep) ==
    Call(i, "generate_any_f64", <<>>, generate_any_f64(rn[i]), keep)
GenerateAnyF32(i, keep) ==
    Call(i, "generate_any_f32", <<>>, generate_any_f32(rn[i]), keep)
GenerateWeightedBool(i, chance, keep) ==
    Call(i, "generate_weighted_bool", <<chance>>,
         generate_weighted_bool(rn[i], chance), keep)

\* impl Lehmer64: the method named fn called on self with the arguments arg.
Method(fn, arg, self) ==
    CASE fn = "generate_u8" -> generate_u8(self)
      [] fn = "generate_u16" -> generate_u16(self)
      [] fn = "generate_u32" -> generate_u32(self)
      [] fn = "generate_u64" -> generate_u64(self)
      [] fn = "generate_usize" -> generate_usize(self)
      [] fn = "generate_u128" -> generate_u128(self)
      [] fn = "generate_i8" -> generate_i8(self)
      [] fn = "generate_i16" -> generate_i16(self)
      [] fn = "generate_i32" -> generate_i32(self)
      [] fn = "generate_i64" -> generate_i64(self)
      [] fn = "generate_isize" -> generate_isize(self)
      [] fn = "generate_i128" -> generate_i128(self)
      [] fn = "generate_f64" -> generate_f64(self)
      [] fn = "generate_f32" -> generate_f32(self)
      [] fn = "generate_bool" -> generate_bool(self)
      [] fn = "generate_any_f64" -> generate_any_f64(self)
      [] fn = "generate_any_f32" -> generate_any_f32(self)
      [] fn = "generate_weighted_bool" -> generate_weighted_bool(self, arg[1])

\* The seeds drawn: zero, one, the default, 2^64, 2^125, 2^126, 2^127,
\* 3 * 2^126 and all ones.
Seeds ==
    {Zero(128), One(128), DEFAULT_SEED, Shl(One(128), 64), Shl(One(128), 125),
     Shl(One(128), 126), Shl(One(128), 127), Shl(FromNat(3, 128), 126),
     AllOnes(128)}

\* n instances built by Lehmer64::new(seed) from one seed.
InitRng(seeds, n) ==
    /\ seed \in seeds
    /\ rn = [i \in 1..n |-> new(seed)]
    /\ calls = [i \in 1..n |-> 0]
    /\ log = [i \in 1..n |-> <<>>]
    /\ in = NoInput
    /\ res = NoResult

(***************************************************************************)
(* Spec: one instance, any method, the latest call logged.                 *)
(***************************************************************************)
Init == InitRng(Seeds, 1)

Next ==
    /\ calls[1] < MaxCalls
    /\ \/ GenerateU8(1, 1)
       \/ GenerateU16(1, 1)
       \/ GenerateU32(1, 1)
       \/ GenerateU64(1, 1)
       \/ GenerateUsize(1, 1)
       \/ GenerateU128(1, 1)
       \/ GenerateI8(1, 1)
       \/ GenerateI16(1, 1)
       \/ GenerateI32(1, 1)
       \/ GenerateI64(1, 1)
       \/ GenerateIsize(1, 1)
       \/ GenerateI128(1, 1)
       \/ GenerateF64(1, 1)
       \/ GenerateF32(1, 1)
       \/ GenerateBool(1, 1)
       \/ GenerateAnyF64(1, 1)
       \/ GenerateAnyF32(1, 1)
       \/ \E chance \in Chances : GenerateWeightedBool(1, chance, 1)

Spec == Init /\ [][Next]_vars

(***************************************************************************)
(* SpecDoc: one instance and the methods of the module's documented run    *)
(* (rng.rs, module documentation), in any order, every call logged.        *)
(***************************************************************************)
DocSeeds == {Zero(128), DEFAULT_SEED, One(128)}

InitDoc == InitRng(DocSeeds, 1)

NextDoc ==
    /\ calls[1] < MaxDocCalls
    /\ \/ GenerateU64(1, MaxDocCalls)
       \/ GenerateU8(1, MaxDocCalls)
       \/ GenerateIsize(1, MaxDocCalls)
       \/ GenerateF32(1, MaxDocCalls)
       \/ GenerateBool(1, MaxDocCalls)
       \/ GenerateAnyF64(1, MaxDocCalls)
       \/ \E chance \in DocChances : GenerateWeightedBool(1, chance, MaxDocCalls)

SpecDoc == InitDoc /\ [][NextDoc]_vars

(***************************************************************************)
(* SpecPair: two instances built from one seed and the 64- and 128-bit     *)
(* integer methods (rng.rs, u128_concatenation_test), every call logged.   *)
(***************************************************************************)
PairSeeds == {Zero(128), One(128), Shl(One(128), 64), AllOnes(128)}

InitPair == InitRng(PairSeeds, 2)

NextPair ==
    \E i \in 1..2 :
        /\ calls[i] < MaxPairCalls
        /\ \/ GenerateU128(i, MaxPairCalls)
           \/ GenerateU64(i, MaxPairCalls)
           \/ GenerateI128(i, MaxPairCalls)
           \/ GenerateI64(i, MaxPairCalls)

SpecPair == InitPair /\ [][NextPair]_vars

(***************************************************************************)
(* SpecAll: every operation of the crate, the call being one on signed     *)
(* integers, one on an unsigned integer or a run of one generator.         *)
(***************************************************************************)
InitAll == InitSign \/ InitLog2 \/ Init

NextAll ==
    \/ in.ty \in SignedTypes /\ NextSign
    \/ in.ty \in UnsignedTypes /\ NextLog2
    \/ in.ty = "none" /\ Next

SpecAll == InitAll /\ [][NextAll]_vars

(***************************************************************************)
(* Properties of sign.rs, under SpecSign.                                  *)
(***************************************************************************)
\* C1: at every signed width and for every x, MIN, -1, 0, 1 and MAX included,
\* int_sign(x) is 1 when x >= 0 and -1, the value with all bits set, when
\* x < 0; so int_sign(0) = 1.
Thm_C1_IntSign ==
    res.fn = "int_sign" =>
        IF IsNegative(in.x)
        THEN /\ res.ret = FromInt(0 - 1, BITS(in.ty))
             /\ res.ret = AllOnes(BITS(in.ty))
        ELSE res.ret = FromInt(1, BITS(in.ty))

\* int_sign_i128(i128::MIN) has returned -1.
Wit_C1_IntSign ==
    /\ res.fn = "int_sign"
    /\ in.ty = "i128"
    /\ in.x = [base |-> "MIN", off |-> 0]
    /\ res.args[1] = MIN("i128")
    /\ res.ret = AllOnes(128)

\* C2: at every signed width and for all x, y, int_opposite_sign(x, y) is true
\* exactly when one of x, y is negative and the other is not, zero counting
\* as positive.
Thm_C2_OppositeSign ==
    res.fn = "int_opposite_sign" =>
        (res.ret <=> (IsNegative(in.x) # IsNegative(in.y)))

\* int_opposite_sign_i64(i64::MIN, i64::MAX) has returned true.
Wit_C2_OppositeSign ==
    /\ res.fn = "int_opposite_sign"
    /\ in.ty = "i64"
    /\ in.x = [base |-> "MIN", off |-> 0]
    /\ in.y = [base |-> "MAX", off |-> 0]
    /\ res.args = <<MIN("i64"), MAX("i64")>>
    /\ res.ret = TRUE

(***************************************************************************)
(* Properties of log.rs, under SpecLog2.                                   *)
(***************************************************************************)
\* 2^k at the width of type t.
PowerOfTwo(t, k) == Shl(One(BITS(t)), k)

\* C3: at every unsigned width and for every x in 1..MAX, log2_floor(x) is the
\* k with 2^k <= x < 2^(k+1) (nothing of the width lies at or above 2^BITS);
\* log2_floor(1) = 0 and log2_floor(MAX) = BITS - 1.
Thm_C3_Log2Floor ==
    (res.fn = "log2_floor" /\ ~IsZero(in.x)) =>
        LET x == res.args[1]
        IN  /\ \E k \in 0..(BITS(in.ty) - 1) :
                /\ res.ret = FromNat(k, 32)
                /\ ~UnsignedLt(x, PowerOfTwo(in.ty, k))
                /\ (k < BITS(in.ty) - 1 => UnsignedLt(x, PowerOfTwo(in.ty, k + 1)))
            /\ (x = One(BITS(in.ty)) => res.ret = FromNat(0, 32))
            /\ (x = MAX(in.ty) => res.ret = FromNat(BITS(in.ty) - 1, 32))

\* u128_log2_floor(u128::MAX) has returned 127.
Wit_C3_Log2Floor ==
    /\ res.fn = "log2_floor"
    /\ in.ty = "u128"
    /\ in.x = [k |-> 128, off |-> 0 - 1, mid |-> FALSE]
    /\ res.args[1] = AllOnes(128)
    /\ res.ret = FromNat(127, 32)

\* The three arguments around 2^k, with 2^k representable and the argument
\* greater than zero.
AroundPower ==
    /\ res.fn = "log2_floor"
    /\ in.x.k <= BITS(in.ty) - 1
    /\ ~in.x.mid
    /\ in.x.off \in {0 - 1, 0, 1}
    /\ ~IsZero(in.x)

\* C4 as stated: for every k with 2^k representable, log2_floor(2^k - 1) = k - 1,
\* log2_floor(2^k) = k and log2_floor(2^k + 1) = k.
Orig_C4_AroundPower ==
    AroundPower =>
        res.ret = FromNat(IF in.x.off < 0 THEN in.x.k - 1 ELSE in.x.k, 32)

\* C4 amended: log2_floor(2^k - 1) = k - 1 and log2_floor(2^k) = k for every k
\* with 2^k representable, and log2_floor(2^k + 1) = k for every such k >= 1;
\* for k = 0 the argument 2^0 + 1 is 2 and log2_floor(2) = 1.
Thm_C4_AroundPower ==
    AroundPower =>
        res.ret = FromNat(IF in.x.off < 0 THEN in.x.k - 1
                          ELSE IF in.x.k = 0 /\ in.x.off = 1 THEN 1
                          ELSE in.x.k, 32)

\* u64_log2_floor(2^63 + 1) has returned 63.
Wit_C4_AroundPower ==
    /\ AroundPower
    /\ in.ty = "u64"
    /\ in.x = [k |-> 63, off |-> 1, mid |-> FALSE]
    /\ res.ret = FromNat(63, 32)

\* C5: at every unsigned width log2_floor(0) returns u32::MAX, the wrapping
\* difference 0 - 1 of BITS - leading_zeros(0) = 0 and 1, and no other
\* argument returns it.
Thm_C5_ZeroSentinel ==
    res.fn = "log2_floor" =>
        LET x == res.args[1]
        IN  IF IsZero(in.x)
            THEN /\ x = Zero(BITS(in.ty))
                 /\ BITS(in.ty) - leading_zeros(x) = 0
                 /\ res.ret = wrapping_sub(Zero(32), One(32))
                 /\ res.ret = AllOnes(32)
            ELSE res.ret # AllOnes(32)

\* u128_log2_floor(0) has returned u32::MAX.
Wit_C5_ZeroSentinel ==
    /\ res.fn = "log2_floor"
    /\ in.ty = "u128"
    /\ IsZero(in.x)
    /\ res.args[1] = Zero(128)
    /\ res.ret = AllOnes(32)

(***************************************************************************)
(* Properties of rng.rs.                                                   *)
(***************************************************************************)
\* The latest call logged on instance 1.
Made == Len(log[1]) > 0
Latest == log[1][Len(log[1])]

\* The methods built by generic_generation_function!, with their types.
IntegerMethods ==
    [generate_u8 |-> "u8", generate_u16 |-> "u16", generate_u32 |-> "u32",
     generate_u64 |-> "u64", generate_usize |-> "usize", generate_i8 |-> "i8",
     generate_i16 |-> "i16", generate_i32 |-> "i32", generate_i64 |-> "i64",
     generate_isize |-> "isize"]

WideMethods == {"generate_u128", "generate_i128"}

\* C6 (Spec): for every seed drawn, zero included, the state is non-zero after
\* Lehmer64::new(seed) and after every generation call.
Thm_C6_StateNonZero == \A i \in DOMAIN rn : rn[i].state # Zero(128)

\* Two calls have been made on a generator built from the zero seed, and its
\* state is not zero.
Wit_C6_StateNonZero ==
    /\ seed = Zero(128)
    /\ calls[1] = 2
    /\ Made
    /\ Latest.pre # Zero(128)
    /\ rn[1].state # Zero(128)

\* state * MUL_CONSTANT^n mod 2^128.
RECURSIVE AdvanceTimes(_, _)
AdvanceTimes(state, n) == IF n = 0 THEN state ELSE AdvanceTimes(advance(state), n - 1)

UpperHalf(state) == Cast(Shr(state, 64), 64)

\* The documented 64-bit outputs after Lehmer64::new(0).
DocOutputs ==
    <<Hex(<<\h06, \h45, \h77, \h75, \h1f, \ha7, \h59, \h98>>),
      Hex(<<\h2f, \hff, \hbd, \h97, \hd5, \hf2, \hf8, \h0a>>),
      Hex(<<\h99, \h81, \h09, \h8d, \h95, \h84, \had, \h55>>)>>

LogIs(fns) ==
    /\ Len(log[1]) >= Len(fns)
    /\ \A j \in 1..Len(fns) : log[1][j].fn = fns[j]

\* C7 (SpecDoc): after Lehmer64::new(0), successive generate_u64 calls return
\* 0x064577751fa75998, 0x2fffbd97d5f2f80a, 0x9981098d9584ad55, the n-th being
\* the upper 64 bits of DEFAULT_SEED * MUL_CONSTANT^(n+2) mod 2^128; and
\* generate_u64, generate_u8, generate_isize return 0x064577751fa75998, 0x0a,
\* -0x667ef6726a7b52ab.
Thm_C7_DocumentedOutputs ==
    seed = Zero(128) =>
        /\ \A n \in 1..Len(log[1]) :
              LogIs([j \in 1..n |-> "generate_u64"]) =>
                  /\ log[1][n].ret.bits = UpperHalf(AdvanceTimes(DEFAULT_SEED, n + 2))
                  /\ (n <= 3 => log[1][n].ret.bits = DocOutputs[n])
        /\ LogIs(<<"generate_u64", "generate_u8">>) =>
              /\ log[1][1].ret.bits = DocOutputs[1]
              /\ log[1][2].ret = [ty |-> "u8", bits |-> Hex(<<\h0a>>)]
        /\ LogIs(<<"generate_u64", "generate_u8", "generate_isize">>) =>
              /\ log[1][3].ret.ty = "isize"
              /\ log[1][3].ret.bits =
                    wrapping_neg(Hex(<<\h66, \h7e, \hf6, \h72, \h6a, \h7b, \h52, \hab>>))
              /\ SignedLt(log[1][3].ret.bits, Zero(64))

\* Three generate_u64 calls have been made after Lehmer64::new(0) and the
\* third returned 0x9981098d9584ad55.
Wit_C7_DocumentedOutputs ==
    /\ seed = Zero(128)
    /\ calls[1] = 3
    /\ LogIs(<<"generate_u64", "generate_u64", "generate_u64">>)
    /\ log[1][3].ret.bits = DocOutputs[3]

\* Instance i has made exactly the calls fns since new(seed).
LogOf(i, fns) ==
    /\ calls[i] = Len(fns)
    /\ Len(log[i]) = Len(fns)
    /\ \A j \in 1..Len(fns) : log[i][j].fn = fns[j]

\* C8 (SpecPair): of two instances built from one seed, when one has called
\* generate_u128 and the other generate_u64 twice, returning a then b, the
\* 128-bit result is (a << 64) | b and the two states are equal; likewise for
\* generate_i128 against two generate_i64 calls, the upper and lower halves of
\* the i128 being the bit patterns of the first and second i64.
Thm_C8_Concatenation ==
    \A i, j \in DOMAIN rn :
        /\ (LogOf(i, <<"generate_u128">>) /\ LogOf(j, <<"generate_u64", "generate_u64">>)) =>
              LET full == log[i][1].ret.bits
                  a == log[j][1].ret.bits
                  b == log[j][2].ret.bits
              IN  /\ full = BitOr(Shl(Cast(a, 128), 64), Cast(b, 128))
                  /\ rn[i].state = rn[j].state
        /\ (LogOf(i, <<"generate_i128">>) /\ LogOf(j, <<"generate_i64", "generate_i64">>)) =>
              LET full == log[i][1].ret.bits
                  a == log[j][1].ret.bits
                  b == log[j][2].ret.bits
              IN  /\ \A k \in 0..63 : /\ Bit(full, 64 + k) = Bit(a, k)
                                      /\ Bit(full, k) = Bit(b, k)
                  /\ rn[i].state = rn[j].state

\* Instance 1 has called generate_u128 and instance 2 generate_u64 twice, from
\* the seed 1, and the two halves differ.
Wit_C8_Concatenation ==
    /\ seed = One(128)
    /\ LogOf(1, <<"generate_u128">>)
    /\ LogOf(2, <<"generate_u64", "generate_u64">>)
    /\ log[2][1].ret.bits # log[2][2].ret.bits
    /\ rn[1].state = rn[2].state

\* C9 (Spec): every generation method leaves the state one multiplicative step
\* from the state it started in, and generate_u128 and generate_i128 two
\* steps, whatever is returned and whatever argument is passed.
Thm_C9_OneAdvance ==
    Made =>
        rn[1].state = IF Latest.fn \in WideMethods
                      THEN wrapping_mul(wrapping_mul(Latest.pre, MUL_CONSTANT), MUL_CONSTANT)
                      ELSE wrapping_mul(Latest.pre, MUL_CONSTANT)

\* generate_weighted_bool(NaN) has been called from a state that a step
\* changes.
Wit_C9_OneAdvance ==
    /\ Made
    /\ Latest.fn = "generate_weighted_bool"
    /\ Latest.arg = <<ChanceNaN>>
    /\ rn[1].state # Latest.pre
    /\ rn[1].state = wrapping_mul(Latest.pre, MUL_CONSTANT)

\* C10 (Spec): a method of an integer type of w <= 64 bits returns bits
\* 64..64+w-1 of the state after the step, which is the result of generate_u64
\* from the same state truncated to w bits, the signed methods returning that
\* pattern at their signed type; generate_bool returns true exactly when bit 64
\* of the state after the step is 1.
Thm_C10_UpperBits ==
    Made =>
        LET updated == wrapping_mul(Latest.pre, MUL_CONSTANT)
        IN  /\ Latest.fn \in DOMAIN IntegerMethods =>
                  LET t == IntegerMethods[Latest.fn]
                  IN  /\ Latest.ret.ty = t
                      /\ Width(Latest.ret.bits) = BITS(t)
                      /\ \A b \in 0..(BITS(t) - 1) :
                            Bit(Latest.ret.bits, b) = Bit(updated, 64 + b)
                      /\ Latest.ret.bits =
                            Cast(generate_u64([state |-> Latest.pre]).ret.bits, BITS(t))
            /\ Latest.fn = "generate_bool" =>
                  (Latest.ret.val <=> Bit(updated, 64) = 1)

\* generate_i8 has returned a negative value.
Wit_C10_UpperBits ==
    /\ Made
    /\ Latest.fn = "generate_i8"
    /\ Latest.ret.ty = "i8"
    /\ SignedLt(Latest.ret.bits, Zero(8))
    /\ Bit(rn[1].state, 71) = 1

\* The bits of the significand of f64 and of f32: an integer below 2^53
\* (2^24) converts exactly.
Mantissa(t) == IF t = "f64" THEN 53 ELSE 24

\* The float num * 2^exp2 lies in [0, 1): num is an unsigned integer, so the
\* value is not negative, and it is below 1 exactly when num < 2^(-exp2).
InUnitInterval(x) ==
    /\ x.exp2 < 0
    /\ 0 - x.exp2 < Width(x.num)
    /\ UnsignedLt(x.num, Shl(One(Width(x.num)), 0 - x.exp2))

\* C11 (Spec): generate_f64 scales (raw 64-bit output >> 11), an integer in
\* [0, 2^53), by 2^-53, and generate_f32 scales (raw 32-bit output >> 8), an
\* integer in [0, 2^24), by 2^-24; the value v returned has 0 <= v < 1, so 1 is
\* never returned.
Thm_C11_UnitInterval ==
    Made =>
        LET updated == wrapping_mul(Latest.pre, MUL_CONSTANT)
        IN  /\ Latest.fn = "generate_f64" =>
                  /\ Latest.ret.ty = "f64"
                  /\ Latest.ret.num = Shr(Cast(Shr(updated, 64), 64), 11)
                  /\ UnsignedLt(Latest.ret.num, Shl(One(64), Mantissa("f64")))
                  /\ Latest.ret.exp2 = 0 - 53
                  /\ InUnitInterval(Latest.ret)
            /\ Latest.fn = "generate_f32" =>
                  /\ Latest.ret.ty = "f32"
                  /\ Latest.ret.num = Shr(Cast(Shr(updated, 64), 32), 8)
                  /\ UnsignedLt(Latest.ret.num, Shl(One(32), Mantissa("f32")))
                  /\ Latest.ret.exp2 = 0 - 24
                  /\ InUnitInterval(Latest.ret)

\* generate_f64 has returned a value of at least one half.
Wit_C11_UnitInterval ==
    /\ Made
    /\ Latest.fn = "generate_f64"
    /\ Bit(Latest.ret.num, 52) = 1
    /\ InUnitInterval(Latest.ret)

\* The calls cs made one after the other on self: the instance left and the
\* values returned.
RECURSIVE Replay(_, _)
Replay(self, cs) ==
    IF cs = <<>>
    THEN [self |-> self, rets |-> <<>>]
    ELSE LET out == Method(cs[1].fn, cs[1].arg, self)
             rest == Replay(out.self, Tail(cs))
         IN  [self |-> rest.self, rets |-> <<out.ret>> \o rest.rets]

\* The seed in effect: DEFAULT_SEED stands in for zero.
EffectiveSeed(sd) == IF sd = Zero(128) THEN DEFAULT_SEED ELSE sd

\* C12 (SpecDoc): Lehmer64::new(seed) returns the state e * MUL_CONSTANT^2 mod
\* 2^128 with e = seed for a non-zero seed and e = DEFAULT_SEED for seed 0; the
\* first generate_u64 returns the upper 64 bits of e * MUL_CONSTANT^3 mod 2^128;
\* and the run made after new(0) reads the same, call by call and in its final
\* state, when made after new(DEFAULT_SEED).
Thm_C12_Construction ==
    LET e == EffectiveSeed(seed)
        e2 == wrapping_mul(wrapping_mul(e, MUL_CONSTANT), MUL_CONSTANT)
    IN  /\ new(seed).state = e2
        /\ calls[1] = 0 => rn[1].state = e2
        /\ (Made /\ log[1][1].fn = "generate_u64") =>
              /\ log[1][1].pre = e2
              /\ log[1][1].ret.bits =
                    Cast(Shr(wrapping_mul(e2, MUL_CONSTANT), 64), 64)
        /\ seed = Zero(128) =>
              LET r == Replay(new(DEFAULT_SEED), log[1])
              IN  /\ r.self = rn[1]
                  /\ r.rets = [j \in 1..Len(log[1]) |-> log[1][j].ret]

\* After Lehmer64::new(0), generate_u64 came first and two more calls followed.
Wit_C12_Construction ==
    /\ seed = Zero(128)
    /\ calls[1] = 3
    /\ log[1][1].fn = "generate_u64"
    /\ log[1][1].ret.bits = UpperHalf(AdvanceTimes(DEFAULT_SEED, 3))
    /\ log[1][3].fn = "generate_weighted_bool"

\* C14 (SpecSign): at every signed width and for all x, y, int_same_sign(x, y)
\* is the negation of int_opposite_sign(x, y) and is true exactly when
\* int_sign(x) = int_sign(y); int_same_sign(MAX, 0) and int_same_sign(0, 0) are
\* true, int_same_sign(MIN, 0) and int_same_sign(MIN, MAX) are false.
Thm_C14_SameSign ==
    res.fn = "int_same_sign" =>
        LET t == in.ty
            x == res.args[1]
            y == res.args[2]
        IN  /\ x = EncodeSigned(t, in.x) /\ y = EncodeSigned(t, in.y)
            /\ res.ret = ~int_opposite_sign(t, x, y)
            /\ res.ret <=> (int_sign(t, x) = int_sign(t, y))
            /\ res.ret <=> (IsNegative(in.x) = IsNegative(in.y))
            /\ (x = MAX(t) /\ y = Zero(BITS(t))) => res.ret
            /\ (x = Zero(BITS(t)) /\ y = Zero(BITS(t))) => res.ret
            /\ (x = MIN(t) /\ y = Zero(BITS(t))) => ~res.ret
            /\ (x = MIN(t) /\ y = MAX(t)) => ~res.ret

\* int_same_sign_i32(0, 0) has returned true.
Wit_C14_SameSign ==
    /\ res.fn = "int_same_sign"
    /\ in.ty = "i32"
    /\ res.args = <<Zero(32), Zero(32)>>
    /\ res.ret = TRUE

\* The state is a fixed point of the recurrence: an advance leaves it as it is.
FixedPoint(state) == wrapping_mul(state, MUL_CONSTANT) = state

\* sd is a multiple of 2^126: its low 126 bits are zero.
MultipleOf2Pow126(sd) == Shl(sd, 2) = Zero(128)

\* C15 as stated: for every non-zero seed, every state reachable after
\* Lehmer64::new(seed) is changed by an advance, and no call that advances
\* once leaves the generator in the state it found.
Orig_C15_OnlyZeroAbsorbs ==
    seed # Zero(128) =>
        /\ ~FixedPoint(rn[1].state)
        /\ (Made /\ Latest.fn \notin WideMethods) => Latest.pre # rn[1].state

\* C15 (Spec), amended: zero is an absorbing state and is excluded, a zero
\* seed being replaced by DEFAULT_SEED; for every seed that is not a non-zero
\* multiple of 2^126, every state reachable after Lehmer64::new(seed) is
\* changed by an advance; the non-zero multiples of 2^126 are fixed points as
\* well, and a generator built from one keeps that state and returns its
\* upper 64 bits on every generate_u64 call.
Thm_C15_AbsorbingStates ==
    /\ FixedPoint(Zero(128))
    /\ rn[1].state # Zero(128)
    /\ (seed = Zero(128) \/ ~MultipleOf2Pow126(seed)) =>
          /\ ~FixedPoint(rn[1].state)
          /\ (Made /\ Latest.fn \notin WideMethods) => Latest.pre # rn[1].state
    /\ (seed # Zero(128) /\ MultipleOf2Pow126(seed)) =>
          /\ rn[1].state = seed
          /\ FixedPoint(rn[1].state)
          /\ Made => Latest.pre = seed
          /\ (Made /\ Latest.fn = "generate_u64") =>
                Latest.ret.bits = Cast(Shr(seed, 64), 64)

\* Built from the seed 2^126, the generator is still in the state 2^126 after
\* MaxCalls calls, the latest a generate_u64 that returned 2^62.
Wit_C15_AbsorbingStates ==
    /\ seed = Shl(One(128), 126)
    /\ calls[1] = MaxCalls
    /\ rn[1].state = seed
    /\ Latest.fn = "generate_u64"
    /\ Latest.ret.bits = Shl(One(64), 62)

\* C13 (SpecAll): no operation aborts on arithmetic overflow.  In int_sign
\* the rotated value is 0 or 2 and the subtraction is 1 - 0 = 1 or 1 - 2 = -1,
\* within the signed range; in log2_floor BITS - leading_zeros(x) is not
\* negative and the final wrapping_sub(1) wraps only for x = 0; in
\* generate_u128 and generate_i128 high_bits is below 2^64, high_bits << 64
\* loses no bits, and every shift count is below the width.
Thm_C13_NoOverflow ==
    /\ res.fn # "none" => ~res.abort
    /\ res.fn = "int_sign" =>
          LET t == in.ty
              rotated == rotate_right(BitAnd(res.args[1], MSB_MASK(t)), BITS_M_2(t))
          IN  /\ BITS_M_2(t) >= 0 /\ BITS_M_2(t) < BITS(t)
              /\ rotated \in {Zero(BITS(t)), FromNat(2, BITS(t))}
              /\ rotated = Zero(BITS(t)) => res.ret = FromInt(1, BITS(t))
              /\ rotated = FromNat(2, BITS(t)) => res.ret = FromInt(0 - 1, BITS(t))
              /\ SignedLt(MIN(t), res.ret) /\ SignedLt(res.ret, MAX(t))
    /\ res.fn = "log2_floor" =>
          LET t == in.ty
              length == BITS(t) - leading_zeros(res.args[1])
          IN  /\ length >= 0
              /\ length = 0 <=> res.args[1] = Zero(BITS(t))
              /\ length = 0 <=> res.ret = AllOnes(32)
              /\ length > 0 => res.ret = FromNat(length - 1, 32)
    /\ \A i \in DOMAIN log : \A j \in 1..Len(log[i]) :
          LET c == log[i][j]
              high_bits == Shr(wrapping_mul(c.pre, MUL_CONSTANT), 64)
          IN  /\ ~c.abort
              /\ c.fn \in WideMethods =>
                    /\ UnsignedLt(high_bits, Shl(One(128), 64))
                    /\ Shr(Shl(high_bits, 64), 64) = high_bits
                    /\ Shr(c.ret.bits, 64) = high_bits
                    /\ ~ShiftOverflows(Width(high_bits), 64)

\* u128_log2_floor(0) has returned u32::MAX: the subtraction gave 0 and
\* wrapping_sub(1) wrapped.
Wit_C13_NoOverflow ==
    /\ res.fn = "log2_floor"
    /\ in.ty = "u128"
    /\ res.args[1] = Zero(128)
    /\ ~res.abort
    /\ res.ret = AllOnes(32)

====
